---- MODULE Spec2Model ----
(***************************************************************************)
(* Model of the subtitle translation pipeline of subtiltes-translator:     *)
(* utils.py (get_file_type, split_subtitle_file, split_srt_file,           *)
(* merge_srt_files) and gemini.py (generate_content, translate_subtitle),  *)
(* driven repeatedly by TranslationService (main.py) with the scratch      *)
(* directory of the application process.  SpecRestart adds the process     *)
(* being terminated and started again; SpecExtract applies the response    *)
(* handling of generate_content to every short response text.              *)
(*                                                                         *)
(* A text is a sequence of tokens.  A token is one SRT block (kind "cue"), *)
(* a triple-backtick delimiter (kind "fence") or a run of other non-blank  *)
(* text (kind "junk").  The srt library's parse and compose are modelled   *)
(* on this token level: parse rejects text that does not start with a      *)
(* block and folds text that follows a block into that block's content;    *)
(* compose sorts by (start, end, index), skips blocks without content or   *)
(* without a positive duration and renumbers from 1.                       *)
(***************************************************************************)
EXTENDS Integers, Sequences, FiniteSets, TLC

VARIABLES
    run,             \* number of translation requests made so far
    ext,             \* extension of subtitle_file: "srt", "ass" or "txt"
    stem,            \* pathlib.Path(subtitle_file).stem
    engine,          \* request.engine, the value of the engine dropdown
    prompt,          \* request.prompt, saved by set_prompt: get_prompt()
    from_language,   \* request.source_language, the language dropdown
    inputFile,       \* text of subtitle_file
    batchFile,       \* scratch dir: {stem}_{i+1:08d}.srt, by <<stem, i+1>>
    cacheFile,       \* scratch dir: {stem}_{i+1:08d}_zh..srt, by <<stem, i+1>>
    outputs,         \* {target_dir}/{stem}_{target_language}.srt, by stem
    files,           \* list returned by split_subtitle_file (<<stem, i+1>>)
    index,           \* loop variable of enumerate(files, 1)
    translated_srt,  \* cues accumulated by the loop
    srts,            \* cues returned by generate_content for the batch
    pc,              \* position of the run
    error,           \* exception that ended the run, "none" otherwise
    plan,            \* what the remote answers to the 1st and 2nd generate
                     \* call of the current batch (chosen when the batch has
                     \* no cache file: otherwise the remote is never asked)
    hadCache,        \* whether the batch's cache file existed when the
                     \* batch started
    uploaded,        \* payload handles created by upload_file in this
                     \* run, <<run, index>>
    deleted,         \* payload handles of this run deleted by
                     \* sample_file.delete()
    genCalls,        \* per batch of this run: model.generate_content calls
    progress,        \* progress_callback calls of this run that returned
    completed,       \* per batch file: the cues returned and the cache file
                     \* when the batch last completed (history)
    outputBefore,    \* the output file when the run began (history)
    gemini_key,      \* get_api_key("gemini") at the time of the invocation
    response,        \* response.text of the batch's last generate call
    answered,        \* batch keys for which a generate call has returned in
                     \* this scratch directory (history)
    fresh,           \* whether the scratch directory held no cache file
                     \* when the run began (history)
    killed,          \* the input and the cached batch keys at the time the
                     \* application was last terminated (history)
    ui,              \* main.py: disabled of the three buttons, and visible
                     \* and value of the progress bar
    shown            \* main.py: the notification shown by the current (or
                     \* last) _on_translate call

vars == <<run, ext, stem, engine, prompt, from_language, inputFile, batchFile,
          cacheFile, outputs, files, index,
          translated_srt, srts, pc, error, plan, hadCache, uploaded, deleted,
          genCalls, progress, completed, outputBefore, gemini_key, response,
          answered, fresh, killed, ui, shown>>

(***************************************************************************)
(* Bounds and program constants                                            *)
(***************************************************************************)
BatchSize == 100

MaxBatches == 2

MaxRuns == 2

MaxResponseLen == 4

VariedBatches == 1

BatchKeys == {k * BatchSize + 1 : k \in 0..(MaxBatches - 1)}

\* The file name stems of the subtitle files the user may select.
Stems == {"ep1", "ep2"}

\* The batch files (and cache files) a scratch directory may hold:
\* {stem}_{i+1:08d}.srt is <<stem, i + 1>>.
Paths == Stems \X BatchKeys

(***************************************************************************)
(* Texts, cues and files                                                   *)
(***************************************************************************)
CueTok(i, s, e, c) ==
    [kind |-> "cue", index |-> i, start |-> s, end |-> e, content |-> c]

\* An SRT block whose line ends are bare carriage returns: srt reads only
\* LF and CRLF as line ends, so as written it is not a block.
CrTok(i, s, e, c) ==
    [kind |-> "crcue", index |-> i, start |-> s, end |-> e, content |-> c]

Junk == [kind |-> "junk", index |-> 0, start |-> 0, end |-> 0, content |-> ""]

Fence == [kind |-> "fence", index |-> 0, start |-> 0, end |-> 0, content |-> ""]

Subtitle(i, s, e, c) == [index |-> i, start |-> s, end |-> e, content |-> c]

NoFile == [exists |-> FALSE, text |-> <<>>]

File(t) == [exists |-> TRUE, text |-> t]

\* Content of a block once the text that follows it has been folded into it.
Absorb(c) ==
    CASE c = ""   -> "junk"
      [] c = "en" -> "en+junk"
      [] c = "zh" -> "zh+junk"
      [] c = "zh2" -> "zh2+junk"
      [] OTHER    -> c

\* f.read() of a file opened in text mode (open("r"), newline = None): the
\* text of the file with every '\r' and '\r\n' replaced by '\n', so a block
\* written with bare carriage returns is read as a block.
read(text) ==
    [i \in 1..Len(text) |->
        IF text[i].kind = "crcue" THEN [text[i] EXCEPT !.kind = "cue"]
                                  ELSE text[i]]

(***************************************************************************)
(* srt.parse, as consumed by [line for line in data]: ok = FALSE stands    *)
(* for srt.SRTParseError.                                                  *)
(***************************************************************************)
\* Whether srt.parse accepts the text: it is empty or begins with a block.
parses(text) == Len(text) = 0 \/ text[1].kind = "cue"

parse(text) ==
    LET n == Len(text)
        marked == [i \in 1..n |->
            [keep    |-> text[i].kind = "cue",
             index   |-> text[i].index,
             start   |-> text[i].start,
             end     |-> text[i].end,
             content |-> IF i < n /\ text[i + 1].kind # "cue"
                            THEN Absorb(text[i].content)
                            ELSE text[i].content]]
        kept == SelectSeq(marked, LAMBDA m : m.keep)
    IN  IF ~parses(text)
           THEN [ok |-> FALSE, cues |-> <<>>]
           ELSE [ok |-> TRUE,
                 cues |-> [i \in 1..Len(kept) |->
                     Subtitle(kept[i].index, kept[i].start, kept[i].end,
                              kept[i].content)]]

\* Subtitle.__lt__ on (start, end, index); sorted() is stable.
Before(s, j, i) ==
    \/ s[j].start < s[i].start
    \/ s[j].start = s[i].start /\ s[j].end < s[i].end
    \/ s[j].start = s[i].start /\ s[j].end = s[i].end
         /\ s[j].index < s[i].index
    \/ s[j].start = s[i].start /\ s[j].end = s[i].end
         /\ s[j].index = s[i].index /\ j < i

\* sorted(subtitles): a list already in order is returned as it is, any
\* other is ordered by the number of elements that come before each one
\* (SubSeq materialises the ranks once).
sorted(s) ==
    LET n == Len(s)
        rank == SubSeq([i \in 1..n |->
                    Cardinality({j \in 1..n : Before(s, j, i)})], 1, n)
        at == SubSeq([r \in 1..n |->
                    CHOOSE i \in 1..n : rank[i] = r - 1], 1, n)
    IN  IF \A i \in 1..(n - 1) : Before(s, i, i + 1)
           THEN s
           ELSE [r \in 1..n |-> s[at[r]]]

\* srt._should_skip_sub: no content, or start >= end.
should_skip_sub(c) == c.content = "" \/ c.start >= c.end

\* srt.sort_and_reindex with start_index = 1, skip = True.
sort_and_reindex(cues) ==
    LET kept == SelectSeq(sorted(cues), LAMBDA c : ~should_skip_sub(c))
    IN  [i \in 1..Len(kept) |->
            Subtitle(i, kept[i].start, kept[i].end, kept[i].content)]

\* srt.compose(subtitles) with its defaults reindex = True, strict = True.
compose(cues) ==
    LET subs == sort_and_reindex(cues)
    IN  [i \in 1..Len(subs) |->
            CueTok(subs[i].index, subs[i].start, subs[i].end, subs[i].content)]

(***************************************************************************)
(* Inputs: subtitle files the user may select, and the remote's answers    *)
(***************************************************************************)
\* A track of n blocks numbered 1..n in time order, with one variation:
\* "empty" gives the second block no text, "unsorted" swaps the times of
\* the first two blocks, "junkhead" puts text in front of the first block.
Track(n, v) ==
    LET p == IF n >= 2 THEN 2 ELSE 1
        blocks == [i \in 1..n |->
            CueTok(i,
                   IF v = "unsorted" /\ n >= 2 /\ i <= 2 THEN 2 * (3 - i) ELSE 2 * i,
                   IF v = "unsorted" /\ n >= 2 /\ i <= 2 THEN 2 * (3 - i) + 1 ELSE 2 * i + 1,
                   IF v = "empty" /\ i = p THEN "" ELSE "en")]
    IN  IF v = "junkhead" THEN <<Junk>> \o blocks ELSE blocks

LongTrack == (MaxBatches - 1) * BatchSize + 1

Tracks ==
    {Track(0, "plain"), Track(2, "plain"), Track(2, "empty"),
     Track(2, "unsorted"), Track(2, "junkhead"), Track(BatchSize, "plain"),
     Track(LongTrack, "plain")}

\* A subtitle file: extension, text and file name stem.
Inputs ==
    {<<"srt", t, "ep1">> : t \in Tracks}
        \cup {<<"ass", Track(2, "plain"), "ep1">>,
              <<"txt", Track(2, "plain"), "ep1">>,
              <<"srt", Track(2, "plain"), "ep2">>}

\* The prompt field as the application fills it, and an edited one.
DefaultPrompt == "prompt1"

Prompts == {DefaultPrompt, "prompt2"}

\* Values of the source language dropdown (SupportedLanguage).
Languages == {"en", "ja"}

\* What the user asks for: the file, the Gemini key found in config.json
\* (possibly none), the engine selected in the dropdown, the prompt and the
\* source language.  _create_translation_request never sets
\* target_language, which is always the default of TranslationRequest.
Requests ==
    {<<in, "key", "Google Gemini", DefaultPrompt, "en">> : in \in Inputs}
        \cup {<<in, "", "Google Gemini", DefaultPrompt, "en">> :
                in \in {<<"srt", Track(2, "plain"), "ep1">>,
                        <<"ass", Track(2, "plain"), "ep1">>}}
        \cup {<<<<"srt", Track(2, "plain"), "ep1">>, k, "OpenAI", DefaultPrompt, "en">> :
                k \in {"", "key"}}
        \cup {<<<<"srt", Track(2, "plain"), "ep1">>, "key", "Google Gemini", pl[1], pl[2]>> :
                pl \in {<<"prompt2", "en">>, <<DefaultPrompt, "ja">>}}

\* The text the remote gives a translated block: it follows the prompt the
\* remote was sent (contents[0]); the source language is not sent.
Rendering == IF prompt = DefaultPrompt THEN "zh" ELSE "zh2"

\* The blocks of the payload with their text translated.
Translate(payload) ==
    [i \in 1..Len(payload) |-> [payload[i] EXCEPT !.content = Rendering]]

\* response.text for each kind of answer to a payload.
Response(kind, payload) ==
    CASE kind = "ok"      -> Translate(payload)
      [] kind = "fenced"  -> <<Junk, Fence>> \o Translate(payload) \o <<Fence, Junk>>
      [] kind = "blank"   ->
            [i \in 1..Len(payload) |->
                [payload[i] EXCEPT !.content = IF i = 1 THEN "" ELSE Rendering]]
      [] kind = "cr"      ->
            [i \in 1..Len(payload) |->
                CrTok(payload[i].index, payload[i].start, payload[i].end, Rendering)]
      [] kind = "garbage" -> <<Junk>>
      [] OTHER            -> <<>>

Kinds == {"ok", "fenced", "blank", "cr", "garbage", "error"}

\* The remote's answers to the first and to a second generate call of one
\* batch; a second answer is only of interest after an unparsable first.
\* "cr" is the translation with bare carriage returns as line ends.
Plans ==
    {<<a, "none">> : a \in Kinds \ {"garbage"}}
        \cup {<<"garbage", b>> : b \in {"ok", "garbage"}}

\* The answers explored for batch b of a run: every plan for the first
\* VariedBatches batches; for the batches after them a translation, text
\* that does not parse, or a service error.
PlansFor(b) ==
    IF b <= VariedBatches THEN Plans
    ELSE {p \in Plans : p[1] \in {"ok", "garbage", "error"}}

NoPlan == <<"none", "none">>

(***************************************************************************)
(* utils.py                                                                *)
(***************************************************************************)
\* Variant of get_file_type: an unknown extension is taken for SRT.
get_file_type_lenient(e) == IF e = "ass" THEN "ASS" ELSE "SRT"

\* get_file_type: the FileType, or "ValueError".
get_file_type(e) ==
    IF e = "srt" THEN "SRT" ELSE IF e = "ass" THEN "ASS" ELSE "ValueError"

\* Number of iterations of range(0, len(srt_data), 100).
NumBatches(n) == (n + BatchSize - 1) \div BatchSize

\* split_srt_file: the list of batch files (<<stem, i + 1>> for each i of the
\* range) and the scratch directory after the batch files were written.
split_srt_file(filename, text, dir) ==
    LET srt_data == parse(read(text)).cues
        n == Len(srt_data)
        fns == [j \in 1..NumBatches(n) |-> <<filename, (j - 1) * BatchSize + 1>>]
        Min(a, b) == IF a < b THEN a ELSE b
    IN  [files |-> fns,
         dir |-> [fn \in Paths |->
             IF fn[1] = filename /\ fn[2] <= n
                THEN File(compose(SubSeq(srt_data, fn[2],
                                         Min(fn[2] + BatchSize - 1, n))))
                ELSE dir[fn]]]

\* merge_srt_files: the text written to target_file.
merge_srt_files(subtitle_files) == File(compose(subtitle_files))

(***************************************************************************)
(* gemini.py: generate_content                                             *)
(***************************************************************************)
\* Variant of Extract: everything after the first delimiter is kept.
ExtractAfterFirst(text) ==
    LET fences == {i \in 1..Len(text) : text[i].kind = "fence"}
        first == CHOOSE i \in fences : \A j \in fences : i <= j
    IN  IF fences = {} THEN text ELSE SubSeq(text, first + 1, Len(text))

\* text.split("```")[1] when "```" is in text, text otherwise.
Extract(text) ==
    LET fences == {i \in 1..Len(text) : text[i].kind = "fence"}
        first == CHOOSE i \in fences : \A j \in fences : i <= j
        later == {i \in fences : i > first}
        second == IF later = {} THEN Len(text) + 1
                  ELSE CHOOSE i \in later : \A j \in later : i <= j
    IN  IF fences = {} THEN text ELSE SubSeq(text, first + 1, second - 1)

\* Variant of persist_and_parse: response.text is written to tmp_file as
\* received and the text kept is parsed.
persist_raw_and_parse(text) ==
    LET kept == Extract(text)
        data == parse(kept)
    IN  [raised |-> IF data.ok THEN "none" ELSE "SRTParseError",
         cues |-> data.cues, cache |-> File(text)]

\* Variant of persist_and_parse: the text kept is written to tmp_file only
\* once it has parsed.
persist_if_parsed(text) ==
    LET kept == Extract(text)
        data == parse(kept)
    IN  [raised |-> IF data.ok THEN "none" ELSE "SRTParseError",
         cues |-> data.cues,
         cache |-> IF data.ok THEN File(kept) ELSE NoFile]

\* Lines 38-48 of generate_content, for response.text = text: the text kept
\* is written to tmp_file and then parsed.
persist_and_parse(text) ==
    LET kept == Extract(text)
        data == parse(kept)
    IN  [raised |-> IF data.ok THEN "none" ELSE "SRTParseError",
         cues |-> data.cues, cache |-> File(kept)]

\* Variant of CacheHit: a cache file that does not parse is not used.
CacheHitParseable(tmp_file) == tmp_file.exists /\ parse(read(tmp_file.text)).ok

\* Variant of CacheHit: the cache file is never consulted.
CacheHitNever(tmp_file) == FALSE

\* if tmp_file.exists()
CacheHit(tmp_file) == tmp_file.exists

\* One call of generate_content for a batch whose cache file is tmp_file,
\* whose uploaded payload is payload and to which the remote would answer
\* kind: the exception raised ("none" if it returns), the cues returned,
\* the cache file afterwards, and whether model.generate_content was called.
generate_content(tmp_file, payload, kind) ==
    IF CacheHit(tmp_file)
       THEN LET data == parse(read(tmp_file.text))
            IN  [raised |-> IF data.ok THEN "none" ELSE "SRTParseError",
                 cues |-> data.cues, cache |-> tmp_file, called |-> FALSE]
       ELSE IF kind = "error"
               THEN [raised |-> "ServiceError", cues |-> <<>>,
                     cache |-> tmp_file, called |-> TRUE]
               ELSE LET res == persist_and_parse(Response(kind, payload))
                    IN  [raised |-> res.raised, cues |-> res.cues,
                         cache |-> res.cache, called |-> TRUE]

(***************************************************************************)
(* gemini.py: translate_subtitle, one action per step                      *)
(***************************************************************************)
Buttons == {"settings_button", "reset_button", "translate_button"}

\* _set_ui_enabled(enabled): the disabled attribute of the three buttons.
set_ui_enabled(enabled) == [b \in Buttons |-> ~enabled]

\* The value of the progress bar is a fraction <<current, total>>; NoValue is
\* the bar as constructed (no value given), Zero the value 0.
NoValue == <<0, 0>>

Zero == <<0, 1>>

\* _create_buttons and _create_progress_bar: buttons enabled, bar hidden.
InitialUi ==
    [disabled |-> set_ui_enabled(TRUE), bar |-> [visible |-> FALSE, value |-> NoValue]]

\* _execute_translation before the try: buttons disabled, bar visible.
Busy(u) ==
    [disabled |-> set_ui_enabled(FALSE), bar |-> [u.bar EXCEPT !.visible = TRUE]]

\* Variant of ExitUi: the UI is restored only when nothing was raised.
ExitUiNoFinally(raised, u) ==
    IF raised = "none"
       THEN [disabled |-> set_ui_enabled(TRUE), bar |-> [visible |-> FALSE, value |-> Zero]]
       ELSE u

\* _execute_translation, the finally block, entered from UI state u with
\* the exception raised ("none" when translate returned).
ExitUi(raised, u) ==
    [disabled |-> set_ui_enabled(TRUE), bar |-> [visible |-> FALSE, value |-> Zero]]

\* _update_progress(current, total)
update_progress(u, current, total) ==
    [u EXCEPT !.bar.value = IF total > 0 THEN <<current, total>> ELSE Zero]

NoNotification == <<"none", "">>

\* The four fields ValidationService.validate_translation_request looks at,
\* each selected or not, and the errors it returns.
RequestFields == <<"engine", "subtitle_file", "output_directory", "source_language">>

validate_translation_request(request) ==
    SelectSeq(RequestFields, LAMBDA f : ~request[f])

NoneCompleted ==
    [k \in Paths |->
        [set |-> FALSE, cues |-> <<>>, cache |-> NoFile, source |-> <<>>,
         prompt |-> DefaultPrompt, from_language |-> "en"]]

NeverKilled == [input |-> <<>>, at |-> "idle", cached |-> {}]

Init ==
    /\ run = 0
    /\ ext = "srt"
    /\ inputFile = <<>>
    /\ batchFile = [k \in Paths |-> NoFile]
    /\ cacheFile = [k \in Paths |-> NoFile]
    /\ outputs = [st \in Stems |-> NoFile]
    /\ stem = "ep1"
    /\ engine = "Google Gemini"
    /\ prompt = DefaultPrompt
    /\ from_language = "en"
    /\ files = <<>>
    /\ index = 0
    /\ translated_srt = <<>>
    /\ srts = <<>>
    /\ pc = "idle"
    /\ error = "none"
    /\ plan = NoPlan
    /\ hadCache = FALSE
    /\ uploaded = {}
    /\ deleted = {}
    /\ genCalls = [b \in 1..MaxBatches |-> 0]
    /\ progress = <<>>
    /\ completed = NoneCompleted
    /\ outputBefore = NoFile
    /\ gemini_key = "key"
    /\ response = <<>>
    /\ answered = {}
    /\ fresh = TRUE
    /\ killed = NeverKilled
    /\ ui = InitialUi
    /\ shown = NoNotification

\* main.py, TranslationService.translate:
\* if request.engine == TranslationEngine.GEMINI.value
EngineImplemented(e) == e = "Google Gemini"

\* Variant of KeyConfigured: the key is not looked at.
KeyConfiguredAlways(k) == TRUE

\* main.py, _translate_with_gemini: if not api_key
KeyConfigured(k) == k # ""

\* Variant of ScratchAtBegin: every invocation gets an empty directory.
ScratchFresh(dir) == [k \in Paths |-> NoFile]

\* translate_subtitle, lines 67-70: tmp_dir is given (TranslationService
\* passes the application's tmp_dir), so the scratch directory is reused.
ScratchAtBegin(dir) == dir

\* Variant of key: the list of batch files is walked from its end.
keyFromLast == files[Len(files) - index + 1]

\* for index, file in enumerate(files, 1): the key of the current batch
key == files[index]

\* output_file: {target_dir}/{stem}_{target_language}.srt
outputFile == outputs[stem]

handle == <<run, index>>

\* An exception e leaves translate: the finally block of
\* _execute_translation, then the except clause of _on_translate.
Fail(e) ==
    /\ pc' = "failed"
    /\ error' = e
    /\ ui' = ExitUi(e, Busy(ui))
    /\ shown' = <<"error", e>>

\* main.py, TranslationService.translate (the engine branch) and
\* _translate_with_gemini (the key check), then translate_subtitle lines
\* 64-98 on the chosen file: get_file_type, split_subtitle_file, and the
\* loop's initial values.
Begin ==
    /\ pc \in {"idle", "done", "failed"}
    /\ run < MaxRuns
    /\ \E req \in Requests :
        LET in == req[1]
            file_type == get_file_type(in[1])
            scratch == ScratchAtBegin(batchFile)
            res == split_srt_file(in[3], in[2], scratch)
        IN  /\ ext' = in[1]
            /\ inputFile' = in[2]
            /\ stem' = in[3]
            /\ gemini_key' = req[2]
            /\ engine' = req[3]
            /\ prompt' = req[4]
            /\ from_language' = req[5]
            /\ outputBefore' = outputs[in[3]]
            /\ IF ~EngineImplemented(req[3])
                  THEN /\ Fail("NotImplementedError: engine")
                       /\ UNCHANGED <<batchFile, cacheFile, files>>
               ELSE IF ~KeyConfigured(req[2])
                  THEN /\ Fail("ValueError: API key")
                       /\ UNCHANGED <<batchFile, cacheFile, files>>
               ELSE IF file_type = "ValueError"
                  THEN /\ Fail("ValueError")
                       /\ UNCHANGED <<batchFile, cacheFile, files>>
               ELSE IF file_type # "SRT"
                  THEN /\ Fail("NotImplementedError")
                       /\ UNCHANGED <<batchFile, cacheFile, files>>
               ELSE IF ~parse(read(in[2])).ok
                  THEN /\ Fail("SRTParseError")
                       /\ batchFile' = scratch
                       /\ cacheFile' = ScratchAtBegin(cacheFile)
                       /\ UNCHANGED files
               ELSE /\ pc' = "loop"
                    /\ error' = "none"
                    /\ ui' = Busy(ui)
                    /\ shown' = NoNotification
                    /\ batchFile' = res.dir
                    /\ cacheFile' = ScratchAtBegin(cacheFile)
                    /\ files' = res.files
    /\ run' = run + 1
    /\ index' = 0
    /\ translated_srt' = <<>>
    /\ srts' = <<>>
    /\ plan' = NoPlan
    /\ hadCache' = FALSE
    /\ genCalls' = [b \in 1..MaxBatches |-> 0]
    /\ progress' = <<>>
    /\ response' = <<>>
    /\ fresh' = \A k \in Paths : ~cacheFile'[k].exists
    /\ uploaded' = {}
    /\ deleted' = {}
    /\ UNCHANGED <<outputs, completed, answered, killed>>

\* main.py, SubtitleTranslatorApp.__init__: a new application object.
\* tmp_dir is a new, empty directory made by tempfile.mkdtemp(), the UI is
\* built anew and no file is selected; files outside the old directory and
\* the remote's payload handles stay.  The prompt field is filled with
\* get_prompt(), which is the prompt _execute_translation saved with
\* set_prompt before the last translate call: the prompt stays.
NewApp ==
    /\ batchFile' = [k \in Paths |-> NoFile]
    /\ cacheFile' = [k \in Paths |-> NoFile]
    /\ completed' = NoneCompleted
    /\ answered' = {}
    /\ fresh' = TRUE
    /\ pc' = "idle"
    /\ error' = "none"
    /\ ext' = "srt"
    /\ stem' = "ep1"
    /\ engine' = "Google Gemini"
    /\ from_language' = "en"
    /\ inputFile' = <<>>
    /\ gemini_key' = "key"
    /\ files' = <<>>
    /\ index' = 0
    /\ translated_srt' = <<>>
    /\ srts' = <<>>
    /\ plan' = NoPlan
    /\ hadCache' = FALSE
    /\ genCalls' = [b \in 1..MaxBatches |-> 0]
    /\ progress' = <<>>
    /\ response' = <<>>
    /\ outputBefore' = NoFile
    /\ ui' = InitialUi
    /\ shown' = NoNotification
    /\ uploaded' = {}
    /\ deleted' = {}
    /\ UNCHANGED <<run, outputs, prompt>>

\* The application process was terminated (during or after an invocation)
\* and started again.
Restart ==
    /\ pc # "idle"
    /\ run < MaxRuns
    /\ killed' = [input |-> <<stem, inputFile>>, at |-> pc,
                  cached |-> {k \in Paths : cacheFile[k].exists}]
    /\ NewApp

\* main.py, SettingsPage._return_to_main: the settings page was opened from
\* the main page (settings button enabled: no translation is running) and
\* left with the back button, which builds a new SubtitleTranslatorApp on
\* the page.
ReturnToMain ==
    /\ pc \in {"idle", "done", "failed"}
    /\ run < MaxRuns        \* bound: a request can still follow
    /\ ~ui.disabled["settings_button"]
    /\ NewApp
    /\ UNCHANGED killed

\* Lines 99-109: the next iteration starts with genai.upload_file, which
\* returns a handle or fails with a service error.
Upload ==
    /\ pc = "loop"
    /\ index < Len(files)
    /\ index' = index + 1
    /\ \/ /\ uploaded' = uploaded \cup {<<run, index + 1>>}
          /\ IF cacheFile[files[index + 1]].exists
                THEN plan' = NoPlan
                ELSE \E p \in PlansFor(index + 1) : plan' = p
          /\ hadCache' = cacheFile[files[index + 1]].exists
          /\ pc' = "try"
          /\ UNCHANGED <<error, ui, shown>>
       \/ /\ Fail("ServiceError")
          /\ UNCHANGED <<uploaded, plan, hadCache>>
    /\ UNCHANGED <<run, ext, stem, engine, prompt, from_language, inputFile, batchFile, cacheFile, outputs, files,
                   translated_srt, srts, deleted, genCalls, progress, completed,
                   outputBefore, gemini_key, response, answered, fresh, killed>>

\* The effect of one generate_content call on the cache and the counters.
Call(res) ==
    /\ cacheFile' = [cacheFile EXCEPT ![key] = res.cache]
    /\ genCalls' = [genCalls EXCEPT ![index] = @ + (IF res.called THEN 1 ELSE 0)]
    /\ IF res.called /\ res.raised # "ServiceError"
          THEN /\ response' = Response(plan[genCalls[index] + 1], batchFile[key].text)
               /\ answered' = answered \cup {key}
          ELSE UNCHANGED <<response, answered>>

\* Variant of Retries: except Exception
RetriesAny(raised) == raised # "none"

\* Line 112: except srt.SRTParseError
Retries(raised) == raised = "SRTParseError"

\* Lines 110-111: the call inside try.
TryGenerate ==
    /\ pc = "try"
    /\ LET res == generate_content(cacheFile[key], batchFile[key].text,
                                   plan[genCalls[index] + 1])
       IN  /\ Call(res)
           /\ IF res.raised = "none"
                 THEN pc' = "extend" /\ srts' = res.cues /\ UNCHANGED <<error, ui, shown>>
              ELSE IF Retries(res.raised)
                 THEN pc' = "except" /\ UNCHANGED <<srts, error, ui, shown>>
              ELSE Fail(res.raised) /\ UNCHANGED srts
    /\ UNCHANGED <<run, ext, stem, engine, prompt, from_language, inputFile, batchFile, outputs, files, index,
                   translated_srt, plan, hadCache, uploaded, deleted, progress,
                   completed, outputBefore, gemini_key, fresh, killed>>

\* Lines 112-114: the call inside except srt.SRTParseError.
RetryGenerate ==
    /\ pc = "except"
    /\ LET res == generate_content(cacheFile[key], batchFile[key].text,
                                   plan[genCalls[index] + 1])
       IN  /\ Call(res)
           /\ IF res.raised = "none"
                 THEN pc' = "extend" /\ srts' = res.cues /\ UNCHANGED <<error, ui, shown>>
                 ELSE Fail(res.raised) /\ UNCHANGED srts
    /\ UNCHANGED <<run, ext, stem, engine, prompt, from_language, inputFile, batchFile, outputs, files, index,
                   translated_srt, plan, hadCache, uploaded, deleted, progress,
                   completed, outputBefore, gemini_key, fresh, killed>>

\* Variant of ProgressArgs: the 0-based position of the batch is reported.
ProgressArgsZeroBased == <<index - 1, Len(files)>>

\* The arguments of progress_callback(index, total_files).
ProgressArgs == <<index, Len(files)>>

\* Variant of Finish: the output file is rewritten after every batch.
FinishWritesOutput ==
    /\ pc = "extend"
    /\ translated_srt' = translated_srt \o srts
    /\ outputs' = [outputs EXCEPT ![stem] = File(compose(translated_srt \o srts))]
    /\ completed' = [completed EXCEPT ![key] =
            [set |-> TRUE, cues |-> srts, cache |-> cacheFile[key],
             source |-> inputFile, prompt |-> prompt,
             from_language |-> from_language]]
    /\ \/ /\ deleted' = deleted \cup {handle}
          /\ \/ /\ progress' = Append(progress, ProgressArgs)
                /\ ui' = update_progress(ui, ProgressArgs[1], ProgressArgs[2])
                /\ pc' = "loop"
                /\ plan' = NoPlan
                /\ response' = <<>>
                /\ UNCHANGED <<error, shown>>
             \/ /\ Fail("CallbackError")
                /\ UNCHANGED <<progress, plan, response>>
       \/ /\ Fail("ServiceError")
          /\ UNCHANGED <<deleted, progress, plan, response>>
    /\ UNCHANGED <<run, ext, stem, engine, prompt, from_language, inputFile, batchFile, cacheFile,
                   files, index, srts, hadCache, uploaded, genCalls,
                   outputBefore, gemini_key, answered, fresh, killed>>

\* Lines 115-118: extend, sample_file.delete() (a remote call, which may
\* fail with a service error), progress_callback (which may raise: the
\* call is recorded in progress once it has returned).
Finish ==
    /\ pc = "extend"
    /\ translated_srt' = translated_srt \o srts
    /\ completed' = [completed EXCEPT ![key] =
            [set |-> TRUE, cues |-> srts, cache |-> cacheFile[key],
             source |-> inputFile, prompt |-> prompt,
             from_language |-> from_language]]
    /\ \/ /\ deleted' = deleted \cup {handle}
          /\ \/ /\ progress' = Append(progress, ProgressArgs)
                /\ ui' = update_progress(ui, ProgressArgs[1], ProgressArgs[2])
                /\ pc' = "loop"
                /\ plan' = NoPlan
                /\ response' = <<>>
                /\ UNCHANGED <<error, shown>>
             \/ /\ Fail("CallbackError")
                /\ UNCHANGED <<progress, plan, response>>
       \/ /\ Fail("ServiceError")
          /\ UNCHANGED <<deleted, progress, plan, response>>
    /\ UNCHANGED <<run, ext, stem, engine, prompt, from_language, inputFile, batchFile, cacheFile, outputs,
                   files, index, srts, hadCache, uploaded, genCalls,
                   outputBefore, gemini_key, answered, fresh, killed>>

\* Line 127, merge_srt_files line 76: target_file.open("w") creates or
\* truncates the output file.
MergeOpen ==
    /\ pc = "loop"
    /\ index = Len(files)
    /\ outputs' = [outputs EXCEPT ![stem] = File(<<>>)]
    /\ pc' = "merge"
    /\ UNCHANGED <<run, ext, stem, engine, prompt, from_language, inputFile, batchFile, cacheFile, files,
                   index, translated_srt, srts, error, plan, hadCache, uploaded,
                   deleted, genCalls, progress, completed, outputBefore,
                   gemini_key, response, answered, fresh, killed, ui, shown>>

\* merge_srt_files line 77: f.write(srt.compose(subtitle_files)); then
\* translate returns: show_success and the finally block.
Merge ==
    /\ pc = "merge"
    /\ outputs' = [outputs EXCEPT ![stem] = merge_srt_files(translated_srt)]
    /\ pc' = "done"
    /\ ui' = ExitUi("none", ui)
    /\ shown' = <<"success", "">>
    /\ UNCHANGED <<run, ext, stem, engine, prompt, from_language, inputFile, batchFile, cacheFile, files,
                   index, translated_srt, srts, error, plan, hadCache, uploaded,
                   deleted, genCalls, progress, completed, outputBefore,
                   gemini_key, response, answered, fresh, killed>>

\* main.py, _on_translate when validate_translation_request returns errors:
\* the first error is shown and _execute_translation is not called.  The
\* click counts as a request (run), like one that fails in Begin.
OnTranslateInvalid ==
    /\ pc \in {"idle", "done", "failed"}
    /\ run < MaxRuns
    /\ run' = run + 1
    /\ \E request \in [{RequestFields[i] : i \in 1..Len(RequestFields)} -> BOOLEAN] :
        LET errors == validate_translation_request(request)
        IN  /\ errors # <<>>
            /\ shown' = <<"error", errors[1]>>
    /\ UNCHANGED <<ext, stem, engine, prompt, from_language, inputFile, batchFile, cacheFile, outputs, files,
                   index, translated_srt, srts, pc, error, plan, hadCache,
                   uploaded, deleted, genCalls, progress, completed,
                   outputBefore, gemini_key, response, answered, fresh, killed,
                   ui>>

Next ==
    \/ Begin \/ Upload \/ TryGenerate \/ RetryGenerate \/ Finish
    \/ MergeOpen \/ Merge \/ ReturnToMain

Spec == Init /\ [][Next]_vars

\* Every response.text of at most MaxResponseLen tokens: SRT blocks,
\* delimiters and other text in any order.
ResponseTexts ==
    UNION {[1..n -> {CueTok(1, 1, 2, "zh"), Junk, Fence}] : n \in 0..MaxResponseLen}

\* generate_content on a batch without cache file, at the point where
\* model.generate_content has returned some response.
InitExtract ==
    /\ response \in ResponseTexts
    /\ pc = "call"
    /\ run = 1
    /\ ext = "srt"
    /\ inputFile = <<CueTok(1, 1, 2, "en")>>
    /\ batchFile = [k \in Paths |-> IF k = <<"ep1", 1>> THEN File(inputFile) ELSE NoFile]
    /\ cacheFile = [k \in Paths |-> NoFile]
    /\ outputs = [st \in Stems |-> NoFile]
    /\ stem = "ep1"
    /\ engine = "Google Gemini"
    /\ prompt = DefaultPrompt
    /\ from_language = "en"
    /\ files = <<<<"ep1", 1>>>>
    /\ index = 1
    /\ translated_srt = <<>>
    /\ srts = <<>>
    /\ error = "none"
    /\ plan = NoPlan
    /\ hadCache = FALSE
    /\ uploaded = {<<1, 1>>}
    /\ deleted = {}
    /\ genCalls = [b \in 1..MaxBatches |-> IF b = 1 THEN 1 ELSE 0]
    /\ progress = <<>>
    /\ completed = NoneCompleted
    /\ outputBefore = NoFile
    /\ gemini_key = "key"
    /\ answered = {}
    /\ fresh = TRUE
    /\ killed = NeverKilled
    /\ ui = Busy(InitialUi)
    /\ shown = NoNotification

\* Lines 38-48 of generate_content applied to the response.
PersistAndParse ==
    /\ pc = "call"
    /\ LET res == persist_and_parse(response)
       IN  /\ cacheFile' = [cacheFile EXCEPT ![key] = res.cache]
           /\ srts' = res.cues
           /\ error' = res.raised
    /\ answered' = answered \cup {key}
    /\ pc' = "returned"
    /\ UNCHANGED <<run, ext, stem, engine, prompt, from_language, inputFile, batchFile, outputs, files, index,
                   translated_srt, plan, hadCache, uploaded, deleted, genCalls,
                   progress, completed, outputBefore, gemini_key, response,
                   fresh, killed, ui, shown>>

NextExtract == PersistAndParse

SpecExtract == InitExtract /\ [][NextExtract]_vars

\* The clicks on the translate button: those that start an invocation and
\* those that validation turns down.
NextUi == Next \/ OnTranslateInvalid

SpecUi == Init /\ [][NextUi]_vars

\* The invocations of one application process, and the process terminated
\* and started again.
NextRestart == Next \/ Restart

SpecRestart == Init /\ [][NextRestart]_vars

(***************************************************************************)
(* Properties                                                              *)
(***************************************************************************)
InBatch == index >= 1 /\ index <= Len(files)

Payload == batchFile[key].text

\* C1: a batch that starts without a cache file and to which the remote
\* answers unparsable text every time is given exactly two remote generate
\* calls before the run fails with the parse error.
C1_RetryThenFail ==
    (pc = "failed" /\ error = "SRTParseError" /\ InBatch /\ ~hadCache
        /\ plan = <<"garbage", "garbage">>)
        => genCalls[index] = 2

\* C2: a batch that starts without a cache file, whose first remote answer
\* is unparsable and whose second would parse, completes: it does not fail,
\* it returns the parse of the second answer and the cache holds that answer.
C2_RetryRecovers ==
    (InBatch /\ ~hadCache /\ plan = <<"garbage", "ok">>)
        => /\ pc # "failed"
           /\ pc = "extend" =>
                /\ srts = parse(Response("ok", Payload)).cues
                /\ cacheFile[key] = File(Response("ok", Payload))

\* C3: a run that has ended, successfully or not, has deleted every payload
\* handle it uploaded.
C3_PayloadReleased ==
    pc \in {"done", "failed"} => uploaded \subseteq deleted

\* C4: a generate_content call for a batch whose cache file exists and
\* parses (as read) makes no remote generate call, leaves the cache file as
\* it is and returns the cues parsed from it; invoked again right after,
\* whatever the remote would answer, it returns the same cues and again
\* makes no remote generate call.
C4_IdempotentTranslation ==
    [][(pc = "try" /\ cacheFile[key].exists /\ parse(read(cacheFile[key].text)).ok)
        => /\ pc' = "extend"
           /\ srts' = parse(read(cacheFile[key].text)).cues
           /\ cacheFile' = cacheFile
           /\ genCalls' = genCalls
           /\ \A kind \in Kinds :
                LET again == generate_content(cacheFile'[key], batchFile[key].text, kind)
                IN  /\ again.raised = "none" /\ ~again.called
                    /\ again.cues = srts' /\ again.cache = cacheFile[key]]_vars

\* C4 witness: in a second run a batch completed before is served from its
\* parseable cache file.
C4_Witness ==
    /\ run = 2 /\ pc = "extend" /\ hadCache /\ completed[key].set
    /\ Len(srts) = BatchSize
    /\ genCalls[index] = 0

CeilDiv(n, b) == CHOOSE q \in 0..n : q * b >= n /\ (q = 0 \/ (q - 1) * b < n)

Slice(cues, k) ==
    SubSeq(cues, k * BatchSize + 1,
           IF (k + 1) * BatchSize < Len(cues) THEN (k + 1) * BatchSize ELSE Len(cues))

\* C5: right after the split of a track of N cues there are ceil(N/100)
\* batch files, and batch file k parses to the cues at positions
\* [100k, min(100(k+1), N)) of the track, indices unmodified.
C5_ChunkPartition ==
    (pc = "loop" /\ index = 0)
        => LET cues == parse(read(inputFile)).cues
           IN  /\ Len(files) = CeilDiv(Len(cues), BatchSize)
               /\ \A j \in 1..Len(files) :
                    /\ batchFile[files[j]].exists
                    /\ parse(batchFile[files[j]].text).cues = Slice(cues, j - 1)

\* C6: the output file written by the merge parses to the translated cues
\* in the order given, each with the index it had in its translated batch.
C6_MergeKeepsCues ==
    pc = "done" => parse(outputFile.text).cues = translated_srt

\* Cues b are a translation of cues a: as many, with the same indices and
\* timestamps, and with text.
Faithful(a, b) ==
    /\ Len(a) = Len(b)
    /\ \A i \in 1..Len(a) :
        /\ b[i].index = a[i].index
        /\ b[i].start = a[i].start
        /\ b[i].end = a[i].end
        /\ b[i].content # ""

\* C7: a successful run on a track numbered 1..N in order, in which every
\* batch's translation has the cues of the batch file sent, writes exactly
\* N cues numbered 1..N with the timestamps of the input.
C7_EndToEnd ==
    LET cues == parse(read(inputFile)).cues
        out == parse(outputFile.text).cues
    IN  (/\ pc = "done"
         /\ \A i \in 1..Len(cues) : cues[i].index = i
         /\ \A j \in 1..Len(files) :
                Faithful(parse(batchFile[files[j]].text).cues, completed[files[j]].cues))
            => /\ Len(out) = Len(cues)
               /\ \A i \in 1..Len(out) :
                    /\ out[i].index = i
                    /\ out[i].start = cues[i].start
                    /\ out[i].end = cues[i].end

\* The cues obtained for batches 1..n of the run, in order.
RECURSIVE ObtainedUpTo(_)
ObtainedUpTo(n) ==
    IF n = 0 THEN <<>> ELSE ObtainedUpTo(n - 1) \o completed[files[n]].cues

\* C8: the progress calls of a run are (1,T), (2,T), ... in order; the call
\* for batch k is made once its cues were obtained (they are in the
\* accumulated cues) and before any remote call for batch k+1; a successful
\* run has made T calls, a run that failed on batch k has made k-1.
C8_ProgressOrdering ==
    /\ progress = [i \in 1..Len(progress) |-> <<i, Len(files)>>]
    /\ pc = "loop" => Len(progress) = index
    /\ pc \in {"try", "except", "extend"} => Len(progress) = index - 1
    /\ pc \in {"merge", "done"} => Len(progress) = Len(files)
    /\ (pc = "failed" /\ index >= 1) => Len(progress) = index - 1
    /\ \A b \in 1..MaxBatches :
        (<<run, b>> \in uploaded \/ genCalls[b] > 0) => Len(progress) >= b - 1
    /\ LET obtained == ObtainedUpTo(Len(progress))
       IN  /\ Len(obtained) <= Len(translated_srt)
           /\ obtained = SubSeq(translated_srt, 1, Len(obtained))

\* C8 witness: a run over several batches has succeeded, and a remote call
\* was made for its last batch.
C8_Witness ==
    /\ pc = "done" /\ Len(files) = MaxBatches
    /\ progress[Len(progress)] = <<MaxBatches, MaxBatches>>
    /\ genCalls[MaxBatches] = 1

\* C9: an invocation of translate_subtitle (the engine is Gemini and the
\* key is configured, or it would not be reached) on a path that ends in .ass fails with
\* NotImplementedError, one on a path that ends in neither .srt nor .ass
\* with ValueError, and it has made no remote call and written no file.
C9_UnsupportedFormatFailsFirst ==
    [][(/\ run' # run /\ ext' # "srt"
        /\ EngineImplemented(engine') /\ KeyConfigured(gemini_key'))
        => /\ pc' = "failed"
           /\ error' = (IF ext' = "ass" THEN "NotImplementedError" ELSE "ValueError")
           /\ \A b \in 1..MaxBatches : genCalls'[b] = 0 /\ <<run', b>> \notin uploaded'
           /\ UNCHANGED <<batchFile, cacheFile, outputs>>]_vars

\* C9 witness: an invocation on a .ass path and one on another extension
\* have failed, in a scratch directory that an earlier run filled.
C9_Witness ==
    /\ run = 2 /\ pc = "failed" /\ ext = "txt"
    /\ \E k \in Paths : cacheFile[k].exists

\* C10: when a run has failed (on batch k, if it reached the loop) the error
\* has reached the caller, the output file is as it was when the run began,
\* and the cache files of batches 1..k-1 exist with the content they had
\* when those batches completed.
C10_AbortKeepsCache ==
    pc = "failed"
        => /\ error # "none"
           /\ outputFile = outputBefore
           /\ \A j \in 1..(index - 1) :
                /\ cacheFile[files[j]].exists
                /\ cacheFile[files[j]] = completed[files[j]].cache

\* C10 witness: a second run has failed on its last batch while an output
\* file from the first run exists.
C10_Witness ==
    /\ run = 2 /\ pc = "failed" /\ index = MaxBatches
    /\ outputFile.exists
    /\ cacheFile[files[1]].exists /\ cacheFile[files[2]].exists

\* C11: when the application process was terminated while it was
\* translating a file, and the application was started again and translates
\* the same file, the new run makes no remote generate call for a batch
\* that had a cache file when the process was terminated.
C11_ResumeAfterTermination ==
    (/\ killed.at \in {"loop", "try", "except", "extend", "merge"}
     /\ pc # "idle" /\ ext = "srt"
     /\ EngineImplemented(engine) /\ KeyConfigured(gemini_key)
     /\ <<stem, inputFile>> = killed.input)
        => \A b \in 1..Len(files) :
                files[b] \in killed.cached => genCalls[b] = 0

\* C12: for an input .srt file that parses to zero cues, split returns an
\* empty batch sequence, the invocation does not complete normally and it
\* writes no output file.
C12_EmptyTrackRejected ==
    (/\ run >= 1 /\ pc # "idle" /\ ext = "srt"
     /\ EngineImplemented(engine) /\ KeyConfigured(gemini_key)
     /\ parse(read(inputFile)).ok /\ Len(parse(read(inputFile)).cues) = 0)
        => /\ Len(files) = 0
           /\ pc # "done"
           /\ outputFile = outputBefore

\* A step in which genai.upload_file for the next batch fails.
UploadFails ==
    pc = "loop" /\ index' = index + 1 /\ <<run, index'>> \notin uploaded'

\* A step in which model.generate_content is called for the current batch
\* and does not return: the call is counted and no text was written.
GenerateFails ==
    /\ pc \in {"try", "except"}
    /\ genCalls'[index] = genCalls[index] + 1
    /\ cacheFile' = cacheFile

\* C13: when the upload or the remote generate call of batch k fails with a
\* service error the run ends with that error, and a run that has ended
\* makes no further upload or remote generate call; the except branch is
\* entered only when the text obtained for the batch does not parse.
C13_ServiceErrorsNotRetried ==
    [][/\ (run' = run /\ (UploadFails \/ GenerateFails))
            => /\ pc' = "failed" /\ error' = "ServiceError"
               /\ \A b \in (index' + 1)..MaxBatches : genCalls'[b] = 0
       /\ (run' = run /\ pc = "failed")
            => /\ uploaded' \subseteq uploaded
               /\ \A b \in 1..MaxBatches : genCalls'[b] <= genCalls[b]
       /\ (run' = run /\ pc' = "except" /\ pc # "except")
            => /\ cacheFile'[files[index']].exists
               /\ ~parse(cacheFile'[files[index']].text).ok]_vars

\* C13 witness: the remote generate call of a batch that is not the last
\* has failed with a service error and the run has ended.
C13_Witness ==
    /\ pc = "failed" /\ error = "ServiceError"
    /\ Len(files) = MaxBatches /\ index = MaxBatches - 1
    /\ genCalls[index] = 1 /\ genCalls[MaxBatches] = 0
    /\ ~cacheFile[files[index]].exists

\* C14: an invocation for the Gemini engine made while the configured
\* Gemini key is the empty string fails with an error, and neither that
\* step nor any later step before the next invocation uploads a payload,
\* calls the remote generate operation or writes a batch, cache or output
\* file (a file is as it was, or gone with its directory).
C14_MissingKeyFailsFirst ==
    [][/\ (run' = run + 1 /\ EngineImplemented(engine') /\ gemini_key' = "")
            => /\ pc' = "failed" /\ error' = "ValueError: API key"
               /\ \A b \in 1..MaxBatches :
                    genCalls'[b] = 0 /\ <<run', b>> \notin uploaded'
               /\ UNCHANGED <<batchFile, cacheFile, outputs>>
       /\ (run' = run /\ EngineImplemented(engine) /\ gemini_key = "")
            => /\ uploaded' \subseteq uploaded
               /\ \A b \in 1..MaxBatches : genCalls'[b] <= genCalls[b]
               /\ \A k \in Paths :
                    /\ batchFile'[k] \in {batchFile[k], NoFile}
                    /\ cacheFile'[k] \in {cacheFile[k], NoFile}
               /\ UNCHANGED outputs]_vars

\* C14 witness: a second invocation, on a .srt file, has failed for the
\* missing key in a scratch directory that the first invocation filled.
C14_Witness ==
    /\ run = 2 /\ pc = "failed" /\ gemini_key = "" /\ ext = "srt"
    /\ error = "ValueError: API key"
    /\ \E k \in Paths : cacheFile[k].exists

\* C15: within one run of translate_subtitle the number of remote generate
\* calls made for a batch is at most one, whatever the cache held and
\* whatever the remote answered.
C15_AtMostOneLiveCall ==
    \A b \in 1..MaxBatches : genCalls[b] <= 1

\* C15 witness: the answer for a batch did not parse, generate_content was
\* invoked again in the except branch, and the run has ended with one remote
\* generate call made for the batch although the remote had a parseable
\* second answer.
C15_Witness ==
    /\ pc = "failed" /\ error = "SRTParseError"
    /\ InBatch /\ plan = <<"garbage", "ok">>
    /\ genCalls[index] = 1

\* kept is what the claim says is kept of text: text itself when it has no
\* delimiter; otherwise the tokens that follow the first delimiter, up to
\* the next delimiter (or to the end of the text when there is no other).
IsFirstBlock(text, kept) ==
    IF \A i \in 1..Len(text) : text[i].kind # "fence"
       THEN kept = text
       ELSE \E i \in 1..Len(text) :
                /\ text[i].kind = "fence"
                /\ \A h \in 1..(i - 1) : text[h].kind # "fence"
                /\ Len(kept) <= Len(text) - i
                /\ \A h \in 1..Len(kept) :
                        kept[h] = text[i + h] /\ kept[h].kind # "fence"
                /\ \/ i + Len(kept) = Len(text)
                   \/ text[i + Len(kept) + 1].kind = "fence"

\* C16: the text written to the cache file and parsed is the content
\* between the first and the second delimiter of the response when the
\* response has a delimiter, and the whole response when it has none.
C16_FencedBlockExtraction ==
    pc = "returned"
        => /\ cacheFile[key].exists
           /\ IsFirstBlock(response, cacheFile[key].text)
           /\ error = (IF parse(cacheFile[key].text).ok THEN "none"
                                                        ELSE "SRTParseError")
           /\ srts = parse(cacheFile[key].text).cues

\* C16 witness: a response with text before the first delimiter, a block
\* between the first and the second, and text after the second has been
\* persisted and parsed.
C16_Witness ==
    /\ pc = "returned"
    /\ response = <<Junk, Fence, CueTok(1, 1, 2, "zh"), Fence>>
    /\ cacheFile[key].text = <<CueTok(1, 1, 2, "zh")>>
    /\ error = "none"

\* C17: a payload that the run has uploaded for a batch belongs to a batch
\* on which a remote generate call was then made: once generate_content has
\* been invoked for an uploaded batch a remote generate call is counted for
\* it, and a batch that had a cache file when it started is not uploaded.
C17_UploadOnlyBeforeLiveCall ==
    \A b \in 1..MaxBatches :
        (/\ <<run, b>> \in uploaded
         /\ (b < index \/ (b = index /\ pc # "try")))
            => /\ genCalls[b] >= 1
               /\ (b = index => ~hadCache)

\* A step in which model.generate_content is called for the current batch
\* and returns a response.
GenerateReturns ==
    /\ pc \in {"try", "except"}
    /\ run' = run
    /\ genCalls'[index] = genCalls[index] + 1
    /\ key \in answered'

\* C18: after a remote generate call that returns, the batch's cache file
\* holds the text extracted from the response, whether that text parses or
\* not; a batch key without cache file has had no returned generate call in
\* this scratch directory; and generate_content on a cache file that exists
\* and parses (as read) makes no remote generate call.
C18_WriteBeforeValidate ==
    [][/\ GenerateReturns
            => /\ cacheFile'[key].exists
               /\ IsFirstBlock(response', cacheFile'[key].text)
               /\ (pc' = "extend") = parse(cacheFile'[key].text).ok
       /\ \A k \in Paths : ~cacheFile'[k].exists => k \notin answered'
       /\ (/\ pc \in {"try", "except"} /\ run' = run
           /\ cacheFile[key].exists /\ parse(read(cacheFile[key].text)).ok)
            => genCalls' = genCalls /\ cacheFile' = cacheFile]_vars

\* C18 witness: the remote answered a batch with text that does not parse;
\* the cache file holds that text and the except branch has been entered.
C18_Witness ==
    /\ pc = "except" /\ genCalls[index] = 1
    /\ response = <<Junk>>
    /\ cacheFile[key] = File(<<Junk>>)
    /\ ~parse(cacheFile[key].text).ok

\* C19: in every state of a run that began in a scratch directory without
\* cache files, the batches that have a cache file are batches 1..j of the
\* batch sequence for some j, the progress callback has been invoked for
\* each of the batches 1..j-1, and a batch that has been uploaded or sent to
\* the remote generate call is one whose predecessors have all completed.
C19_CachedPrefix ==
    (fresh /\ run >= 1 /\ pc # "idle")
        => /\ \E j \in 0..Len(files) :
                /\ {k \in Paths : cacheFile[k].exists}
                        = {files[b] : b \in 1..j}
                /\ j - 1 <= Len(progress)
                /\ \A b \in 1..(j - 1) : progress[b][1] = b
           /\ \A b \in 1..MaxBatches :
                (<<run, b>> \in uploaded \/ genCalls[b] > 0)
                    => Len(progress) >= b - 1

\* C19 witness: a run that began without cache files has been aborted on
\* its last batch by an answer that does not parse; every batch has a cache
\* file and all but the last have completed.
C19_Witness ==
    /\ fresh /\ pc = "failed" /\ error = "SRTParseError"
    /\ Len(files) = MaxBatches /\ index = MaxBatches
    /\ \A b \in 1..MaxBatches : cacheFile[files[b]].exists
    /\ Len(progress) = MaxBatches - 1

\* The batch that last completed under the current batch key was run on
\* another input, or on the same input with another prompt or language.
OtherRequest ==
    \/ completed[key].source # inputFile
    \/ completed[key].prompt # prompt
    \/ completed[key].from_language # from_language

\* C20: when a batch of an earlier run on another input (same file name
\* stem, same scratch directory), or on the same input with another prompt
\* or language, completed under the batch key of the current batch,
\* generate_content for the current batch returns the cues read from the
\* cache file that earlier batch left and makes no remote generate call.
C20_FalseCacheHit ==
    [][(/\ pc = "try" /\ run' = run
        /\ completed[key].set
        /\ OtherRequest)
            => /\ pc' = "extend"
               /\ srts' = parse(read(completed[key].cache.text)).cues
               /\ genCalls' = genCalls
               /\ cacheFile' = cacheFile]_vars

\* The second run, on another input than the first, has been given the
\* first run's cues for its first batch, which are not a translation of
\* that batch, without a remote generate call.
OtherInputServed ==
    /\ run = 2 /\ pc = "extend" /\ index = 1 /\ hadCache
    /\ completed[key].set /\ completed[key].source # inputFile
    /\ srts = completed[key].cues
    /\ srts # parse(Response("ok", batchFile[key].text)).cues
    /\ genCalls[index] = 0

\* C20 witness: the second run, on the same input as the first and with the
\* same source language but another prompt, has been given the first run's
\* cues for its first batch, which are not what the remote answers to the
\* new prompt, without a remote generate call.
C20_Witness ==
    /\ run = 2 /\ pc = "extend" /\ index = 1 /\ hadCache
    /\ completed[key].set /\ completed[key].source = inputFile
    /\ completed[key].prompt # prompt
    /\ completed[key].from_language = from_language
    /\ srts = completed[key].cues
    /\ srts # parse(Response("ok", batchFile[key].text)).cues
    /\ genCalls[index] = 0

\* C21: generate_content for a batch whose cache file exists and does not
\* parse (as read) makes no remote generate call and leaves the file as it is, on the
\* first attempt (which enters the except branch) and on the retry (which
\* ends the run with the parse error); no step of the pipeline (in the
\* same scratch directory: the application object is not replaced) changes
\* a cache file that does not parse, and no run gets past a batch that has
\* one.
C21_UnparsableCacheBlocks ==
    [][/\ (/\ pc \in {"try", "except"} /\ run' = run
           /\ cacheFile[key].exists /\ ~parses(read(cacheFile[key].text)))
            => /\ genCalls' = genCalls
               /\ cacheFile' = cacheFile
               /\ pc = "try" => pc' = "except"
               /\ pc = "except" => (pc' = "failed" /\ error' = "SRTParseError")
       /\ \A k \in Paths :
            (pc' # "idle" /\ cacheFile[k].exists /\ ~parses(read(cacheFile[k].text)))
                => cacheFile'[k] = cacheFile[k]
       /\ \A b \in 1..Len(files') :
            (cacheFile'[files'[b]].exists /\ ~parses(read(cacheFile'[files'[b]].text)))
                => /\ index' <= b
                   /\ index' = b => pc' \in {"try", "except", "failed"}]_vars

\* C21 witness: a second run has failed with the parse error on a batch
\* whose cache file, left by the first run, does not parse; it made no
\* remote generate call for the batch and the file is as it was.
C21_Witness ==
    /\ run = 2 /\ pc = "failed" /\ error = "SRTParseError"
    /\ InBatch /\ hadCache
    /\ genCalls[index] = 0
    /\ cacheFile[key] = File(<<Junk>>)

\* A translation is running: _execute_translation is inside its try.
Running == pc \in {"loop", "try", "except", "extend", "merge"}

\* The three buttons are disabled and the progress bar is visible exactly
\* while a translation is running; once one has ended the bar's value is 0.
UiLock ==
    /\ \A b \in Buttons : ui.disabled[b] = Running
    /\ ui.bar.visible = Running
    /\ pc \in {"done", "failed"} => ui.bar.value = Zero

\* C22: the translate, reset and settings buttons are disabled and the
\* progress bar is visible exactly while a translation is running; when
\* _on_translate has returned the buttons are enabled and the bar is hidden
\* with value 0, a translation that raised has had its error shown as a
\* notification, one that completed has had the success notification shown,
\* and a request that was turned down at once has had an error shown.
C22_UiLockReleased ==
    [][/\ UiLock /\ UiLock'
       /\ (Running /\ pc' = "failed") => shown' = <<"error", error'>>
       /\ (Running /\ pc' = "done") => shown' = <<"success", "">>
       /\ (~Running /\ ~Running' /\ run' = run + 1) => shown'[1] = "error"]_vars

\* C22 witness: a translation raised a service error on its second batch,
\* after the bar had shown the progress of the first; the buttons are
\* enabled again, the bar is hidden with value 0 and the error is shown.
C22_Witness ==
    /\ pc = "failed" /\ error = "ServiceError"
    /\ index = 2 /\ Len(progress) = 1
    /\ \A b \in Buttons : ~ui.disabled[b]
    /\ ui.bar = [visible |-> FALSE, value |-> Zero]
    /\ shown = <<"error", "ServiceError">>

====
